---- MODULE Spec2Model ----
(***************************************************************************)
(* Model of the DDPG agent (Scripts/DDPGNetwork.py) and of its training    *)
(* driver (Scripts/DDPG_run.py).                                           *)
(*                                                                         *)
(* Numbers are fixed point.  Network parameters are integers counted in    *)
(* units of 1/Unit, tau is t/TauDen and gamma is GammaNum/GammaDen,        *)
(* so that the blends and the TD target are computed exactly.  Outputs of  *)
(* the networks' forward passes, of the optimizers and of the environment  *)
(* are opaque numeric results and are drawn from small sets.               *)
(***************************************************************************)
EXTENDS Integers, Sequences, FiniteSets, TLC

\* ---------------------------------------------------------------- bounds
MaxMem == 2
MaxBatch == 2
MaxStores == 3
MaxBlend == 2
MaxSteps == 2
MaxEpisodes == 2
MaxRuns == 2
MaxInput == 6

\* ------------------------------------------------------- program constants
TauDen == 2
GammaNum == 99
GammaDen == 100

\* every blend with 0 < tau < 1 halves the grid the targets lie on: Unit
\* leaves room for the blends of the calls and of the steps of a run
Unit == TauDen ^ (MaxBlend + MaxEpisodes * MaxSteps)

TauSet == 0..TauDen
PVals == {0, Unit}
ObsSet == {1, 2}
ActSet == {3, 4}
RewardSet == {-1, 2}
QVals == {5}
LossVals == {7}
\* an optimizer step leaves every parameter (a zero gradient) or moves it
Moves == {0, 1}

\* the transitions remember is called with
Transitions ==
    {[state |-> 1, action |-> 3, reward |-> 2, state_ |-> 2, done |-> FALSE],
     [state |-> 2, action |-> 4, reward |-> -1, state_ |-> 1, done |-> TRUE]}

\* the reward the environment gives on reaching an observation
RewardOf(o) == IF o = 1 THEN -1 ELSE 2

ActorNames == {"fc1.weight", "mu.weight"}
CriticNames == {"fc1.weight", "q.weight"}

\* agent.actor_loss and agent.critic_loss hold the empty Python list that
\* Agent.__init__ puts there, or the float of loss.item()
EmptyList == [kind |-> "list", val |-> 0]
Scalar(v) == [kind |-> "float", val |-> v]
Losses == {Scalar(v) : v \in LossVals}

VARIABLES
    \* ReplayBuffer
    mem_size, mem_cntr, state_memory, new_state_memory, action_memory,
    reward_memory, terminal_memory,
    \* Agent
    batch_size, tau, actor, critic, target_actor, target_critic,
    actor_loss, critic_loss,
    \* Agent.learn: position and locals
    pc, batch, smp, critic_value_, target,
    \* bookkeeping: the calls made so far
    history, last, blends,
    \* run()
    run_pc, i, observation, obs, new_state, action, reward, done, score,
    steps, score_history, run_actor_loss, run_critic_loss, saved,
    \* DDPG_main()
    main_pc, task_in, reward_in, NoRuns, TASK, REWARD, worker, run_scores,
    reported

bufferVars == <<mem_size, mem_cntr, state_memory, new_state_memory,
                action_memory, reward_memory, terminal_memory>>
netVars == <<actor, critic, target_actor, target_critic>>
lossVars == <<actor_loss, critic_loss>>
localVars == <<batch, smp, critic_value_, target>>
agentVars == <<bufferVars, batch_size, tau, netVars, lossVars, pc, localVars,
               history, last, blends>>
runVars == <<run_pc, i, observation, obs, new_state, action, reward, done,
             score, steps, score_history, run_actor_loss, run_critic_loss,
             saved>>
mainVars == <<main_pc, task_in, reward_in, NoRuns, TASK, REWARD, worker,
              run_scores, reported>>
vars == <<agentVars, runVars, mainVars>>

\* ---------------------------------------------------------------- helpers
Min(a, b) == IF a < b THEN a ELSE b

\* int(b) of a Python / torch bool
IntOfBool(b) == IF b THEN 1 ELSE 0

\* the value a numpy array of dtype bool keeps when an integer is assigned
BoolOfInt(n) == n # 0

Slots == 0..(mem_size - 1)

\* the call or step made last, and the tau it was made with
Op(name) == [op |-> name, tau |-> 0]

\* ------------------------------------------------------------ ReplayBuffer
\* index = self.mem_cntr % self.mem_size
\* (variant: the cursor advanced before the write)
WriteIndexAlt(cntr, size) == (cntr + 1) % size
WriteIndex(cntr, size) == cntr % size

\* self.terminal_memory[index] = 1 - done
\* (variant: line 55, self.terminal_memory[index] = done)
StoredFlagAlt(d) == BoolOfInt(IntOfBool(d))
StoredFlag(d) == BoolOfInt(1 - IntOfBool(d))

\* max_mem = min(self.mem_cntr, self.mem_size)
\* (variant: the whole arena, written or not)
MaxMemOfAlt(cntr, size) == size
MaxMemOf(cntr, size) == Min(cntr, size)

\* the five arrays sample_buffer returns for the draw b
SampleArrays(b) ==
    [states    |-> [j \in DOMAIN b |-> state_memory[b[j]]],
     actions   |-> [j \in DOMAIN b |-> action_memory[b[j]]],
     rewards   |-> [j \in DOMAIN b |-> reward_memory[b[j]]],
     states_   |-> [j \in DOMAIN b |-> new_state_memory[b[j]]],
     terminal  |-> [j \in DOMAIN b |-> terminal_memory[b[j]]]]

StoreTransition(s, a, r, s_, d) ==
    LET index == WriteIndex(mem_cntr, mem_size) IN
    /\ state_memory' = [state_memory EXCEPT ![index] = s]
    /\ new_state_memory' = [new_state_memory EXCEPT ![index] = s_]
    /\ action_memory' = [action_memory EXCEPT ![index] = a]
    /\ reward_memory' = [reward_memory EXCEPT ![index] = r]
    /\ terminal_memory' = [terminal_memory EXCEPT ![index] = StoredFlag(d)]
    /\ mem_cntr' = mem_cntr + 1
    /\ history' = Append(history,
                     [state |-> s, action |-> a, reward |-> r,
                      state_ |-> s_, done |-> d])
    /\ UNCHANGED mem_size

\* ------------------------------------------------------------------- Agent
\* tau * source[name] + (1 - tau) * target[name], for every name of source
\* (variant: the two weights exchanged)
BlendAlt(t, source, targ) ==
    [name \in DOMAIN source |->
        ((TauDen - t) * source[name] + t * targ[name]) \div TauDen]
Blend(t, source, targ) ==
    [name \in DOMAIN source |->
        (t * source[name] + (TauDen - t) * targ[name]) \div TauDen]

\* optimizer.step() on the parameters p the optimizer was built over
OptimizerStep(p) == {[name \in DOMAIN p |-> p[name] + d * Unit] : d \in Moves}

\* if self.memory.mem_cntr < self.batch_size: return
\* (variant: the threshold off by one)
LearnGuardAlt(cntr, bsize) == cntr < bsize - 1
LearnGuard(cntr, bsize) == cntr < bsize

\* reward[j] + self.gamma * critic_value_[j] * int(done[j]), times GammaDen
TDTarget(r, q, flag) == GammaDen * r + GammaNum * q * IntOfBool(flag)

\* the weights a network is constructed with, drawn from P
InitWeights(Names, P) ==
    {[name \in Names |-> IF name = "fc1.weight" THEN a ELSE Unit - a] : a \in P}

\* the state Agent.__init__ leaves: max_size in MS, batch_size in BS, tau in
\* T and the drawn initial weights in P
InitAgent(MS, BS, T, P) ==
    /\ mem_size \in MS
    /\ mem_cntr = 0
    /\ state_memory = [k \in Slots |-> 0]
    /\ new_state_memory = [k \in Slots |-> 0]
    /\ action_memory = [k \in Slots |-> 0]
    /\ reward_memory = [k \in Slots |-> 0]
    /\ terminal_memory = [k \in Slots |-> FALSE]
    /\ batch_size \in BS
    /\ tau \in T
    /\ actor \in InitWeights(ActorNames, P)
    /\ critic \in InitWeights(CriticNames, P)
    \* self.update_network_parameters(tau=1) on the freshly drawn targets
    /\ \E ta \in InitWeights(ActorNames, PVals) :
          target_actor = Blend(TauDen, actor, ta)
    /\ \E tc \in InitWeights(CriticNames, PVals) :
          target_critic = Blend(TauDen, critic, tc)
    /\ actor_loss = EmptyList
    /\ critic_loss = EmptyList
    /\ pc = "idle"
    /\ batch = <<>>
    /\ smp = SampleArrays(<<>>)
    /\ critic_value_ = <<>>
    /\ target = <<>>
    /\ history = <<>>
    /\ last = Op("init")
    /\ blends = 0

\* what returning from learn() does to the caller's position
Returned == IF run_pc = "learn" THEN "after_learn" ELSE run_pc

Fractional(t) == 0 < t /\ t < TauDen

\* Agent.remember, called on its own
Remember ==
    /\ run_pc = "api" /\ pc = "idle"
    /\ Len(history) < MaxStores
    /\ \E t \in Transitions :
          StoreTransition(t.state, t.action, t.reward, t.state_, t.done)
    /\ last' = Op("remember")
    /\ UNCHANGED <<batch_size, tau, netVars, lossVars, pc, localVars, blends,
                   runVars, mainVars>>

\* Agent.learn below the threshold: the early return
LearnReturn ==
    /\ run_pc \in {"api", "learn"} /\ pc = "idle"
    /\ LearnGuard(mem_cntr, batch_size)
    /\ run_pc' = Returned
    /\ last' = Op("learn_return")
    /\ UNCHANGED <<bufferVars, batch_size, tau, netVars, lossVars, pc,
                   localVars, history, blends, mainVars>>
    /\ UNCHANGED <<i, observation, obs, new_state, action, reward, done, score,
                   steps, score_history, run_actor_loss, run_critic_loss,
                   saved>>

\* Agent.learn past the threshold, up to the TD targets: the draw of
\* sample_buffer, the target networks' outputs and the target list.
\* np.random.choice raises on an empty range, and learn with it.
LearnBegin ==
    /\ run_pc \in {"api", "learn"} /\ pc = "idle"
    /\ ~LearnGuard(mem_cntr, batch_size)
    /\ run_pc = "api" => blends < MaxBlend
    /\ LET max_mem == MaxMemOf(mem_cntr, mem_size) IN
       IF max_mem <= 0
       THEN /\ last' = Op("learn_raised")
            /\ run_pc' = IF run_pc = "learn" THEN "raised" ELSE run_pc
            /\ UNCHANGED <<pc, localVars>>
       ELSE /\ \E b \in [1..batch_size -> 0..(max_mem - 1)] :
                 /\ batch' = b
                 /\ smp' = SampleArrays(b)
            /\ critic_value_' \in [1..batch_size -> QVals]
            /\ target' = [j \in 1..batch_size |->
                            TDTarget(smp'.rewards[j], critic_value_'[j],
                                     smp'.terminal[j])]
            /\ pc' = "critic"
            /\ last' = Op("td_target")
            /\ run_pc' = Returned
    /\ UNCHANGED <<bufferVars, batch_size, tau, netVars, lossVars, history,
                   blends, mainVars>>
    /\ UNCHANGED <<i, observation, obs, new_state, action, reward, done, score,
                   steps, score_history, run_actor_loss, run_critic_loss,
                   saved>>

\* self.critic.optimizer.step(): Adam over self.critic.parameters()
\* (variant: the target Critic sharing the Critic's tensors)
CriticStepAlt ==
    /\ pc = "critic"
    /\ critic_loss' \in Losses
    /\ critic' \in OptimizerStep(critic)
    /\ target_critic' = critic'
    /\ pc' = "actor"
    /\ last' = Op("critic_step")
    /\ batch' = <<>> /\ smp' = SampleArrays(<<>>)
    /\ critic_value_' = <<>> /\ target' = <<>>
    /\ UNCHANGED <<bufferVars, batch_size, tau, actor, target_actor,
                   actor_loss, history, blends, runVars, mainVars>>
CriticStep ==
    /\ pc = "critic"
    /\ critic_loss' \in Losses
    /\ critic' \in OptimizerStep(critic)
    /\ pc' = "actor"
    /\ last' = Op("critic_step")
    \* target, critic_value_ and the sampled arrays other than state are dead
    /\ batch' = <<>> /\ smp' = SampleArrays(<<>>)
    /\ critic_value_' = <<>> /\ target' = <<>>
    /\ UNCHANGED <<bufferVars, batch_size, tau, actor, target_actor,
                   target_critic, actor_loss, history, blends, runVars,
                   mainVars>>

\* self.actor.optimizer.step(): Adam over self.actor.parameters()
ActorStep ==
    /\ pc = "actor"
    /\ actor_loss' \in Losses
    /\ actor' \in OptimizerStep(actor)
    /\ pc' = "update"
    /\ last' = Op("actor_step")
    /\ UNCHANGED <<bufferVars, batch_size, tau, critic, target_actor,
                   target_critic, critic_loss, localVars, history, blends,
                   runVars, mainVars>>

\* update_network_parameters(tau): both targets blended, sources untouched
UpdateNetworkParameters(t) ==
    /\ target_critic' = Blend(t, critic, target_critic)
    /\ target_actor' = Blend(t, actor, target_actor)
    /\ blends' = blends + 1
    /\ UNCHANGED <<actor, critic>>

\* the last statement of learn: self.update_network_parameters()
SoftUpdate ==
    /\ pc = "update"
    /\ UpdateNetworkParameters(tau)
    /\ pc' = "idle"
    /\ last' = [op |-> "soft_update", tau |-> tau]
    /\ UNCHANGED <<bufferVars, batch_size, tau, lossVars, localVars, history,
                   runVars, mainVars>>

\* update_network_parameters(tau=t), called on its own
Update ==
    /\ run_pc = "api" /\ pc = "idle"
    /\ \E t \in TauSet :
          /\ blends < MaxBlend
          /\ UpdateNetworkParameters(t)
          /\ last' = [op |-> "update", tau |-> t]
    /\ UNCHANGED <<bufferVars, batch_size, tau, lossVars, pc, localVars,
                   history, runVars, mainVars>>

\* ------------------------------------------------------------------- run()
\* locals of run() that are not bound yet
Unbound == 0

InitRunLocals(O) ==
    /\ i = 0
    /\ obs \in O
    /\ observation = Unbound /\ new_state = Unbound /\ action = Unbound
    /\ reward = Unbound /\ done = FALSE /\ score = 0 /\ steps = 0
    /\ score_history = <<>>
    /\ run_actor_loss = <<>> /\ run_critic_loss = <<>>
    /\ saved = [actor_loss |-> <<>>, critic_loss |-> <<>>, written |-> FALSE]

\* for i in range(...): observation = env.reset(); done = False; score = 0
RunReset ==
    /\ run_pc = "for" /\ pc = "idle"
    /\ observation' \in ObsSet
    /\ done' = FALSE
    /\ score' = 0
    /\ steps' = 0
    /\ run_pc' = "while"
    /\ UNCHANGED <<agentVars, mainVars, i, obs, new_state, action, reward,
                   score_history, run_actor_loss, run_critic_loss, saved>>

\* while not done: choose_action(observation), env.step(action),
\* agent.remember(observation, action, reward, new_state, done), then learn.
\* The environment ends an episode after MaxSteps steps at the latest.
RunStep ==
    /\ run_pc = "while" /\ pc = "idle"
    /\ ~done
    /\ action' \in {3}
    /\ new_state' \in ObsSet
    /\ reward' = RewardOf(new_state')
    /\ done' \in (IF steps + 1 >= MaxSteps THEN {TRUE} ELSE BOOLEAN)
    /\ StoreTransition(observation, action', reward', new_state', done')
    /\ last' = Op("remember")
    /\ steps' = steps + 1
    /\ run_pc' = "learn"
    /\ UNCHANGED <<batch_size, tau, netVars, lossVars, pc, localVars, blends,
                   mainVars, i, observation, obs, score, score_history,
                   run_actor_loss, run_critic_loss, saved>>

\* after agent.learn() has returned: score += reward; obs = new_state
RunAfterLearn ==
    /\ run_pc = "after_learn" /\ pc = "idle"
    /\ score' = score + reward
    /\ obs' = new_state
    /\ run_pc' = IF done THEN "end_episode" ELSE "while"
    /\ UNCHANGED <<agentVars, mainVars, i, observation, new_state, action,
                   reward, done, steps, score_history, run_actor_loss,
                   run_critic_loss, saved>>

\* actor_loss.append(agent.actor_loss); critic_loss.append(...);
\* score_history.append(score); next i
RunEndEpisode ==
    /\ run_pc = "end_episode"
    /\ run_actor_loss' = Append(run_actor_loss, actor_loss)
    /\ run_critic_loss' = Append(run_critic_loss, critic_loss)
    /\ score_history' = Append(score_history, score)
    /\ i' = i + 1
    /\ run_pc' = IF i + 1 < MaxEpisodes THEN "for" ELSE "save"
    /\ UNCHANGED <<agentVars, mainVars, observation, obs, new_state, action,
                   reward, done, score, steps, saved>>

\* actor_loss = actor_loss[1:]; critic_loss = critic_loss[1:]; np.save(...)
RunSave ==
    /\ run_pc = "save"
    /\ run_actor_loss' = Tail(run_actor_loss)
    /\ run_critic_loss' = Tail(run_critic_loss)
    /\ saved' = [actor_loss |-> run_actor_loss', critic_loss |-> run_critic_loss',
                 written |-> TRUE]
    /\ run_pc' = "done"
    /\ UNCHANGED <<agentVars, mainVars, i, observation, obs, new_state, action,
                   reward, done, score, steps, score_history>>

\* -------------------------------------------------------------- DDPG_main()
task_list == <<"Reach", "Push", "PickAndPlace", "Slide", "Stack">>
reward_list == <<"Dense", "">>

InputInts == (-MaxInput)..MaxInput

\* Python's list[k]: k counts from the end when negative, IndexError outside
InRange(list, k) == -Len(list) <= k /\ k < Len(list)
Subscript(list, k) == IF k >= 0 THEN list[k + 1] ELSE list[Len(list) + k + 1]

\* np.arange(NoRuns, dtype=int).tolist()
rList(n) == 0..(n - 1)

NoWorker == [pc |-> "none", env |-> FALSE, agent |-> FALSE]

InitMain(P) ==
    /\ main_pc = P
    /\ task_in = 0 /\ reward_in = 0 /\ NoRuns = 0
    /\ TASK = "" /\ REWARD = ""
    /\ worker = [r \in rList(0) |-> NoWorker]
    /\ run_scores = {}
    /\ reported = FALSE

\* TASK = task_list[int(input(...))]
MainTask ==
    /\ main_pc = "task"
    /\ task_in' \in InputInts
    /\ IF InRange(task_list, task_in')
       THEN TASK' = Subscript(task_list, task_in') /\ main_pc' = "reward"
       ELSE TASK' = TASK /\ main_pc' = "raised"
    /\ UNCHANGED <<agentVars, runVars, reward_in, NoRuns, REWARD, worker,
                   run_scores, reported>>

\* REWARD = reward_list[int(input(...))]
MainReward ==
    /\ main_pc = "reward"
    /\ reward_in' \in InputInts
    /\ IF InRange(reward_list, reward_in')
       THEN REWARD' = Subscript(reward_list, reward_in') /\ main_pc' = "runs"
       ELSE REWARD' = REWARD /\ main_pc' = "raised"
    /\ UNCHANGED <<agentVars, runVars, task_in, NoRuns, TASK, worker,
                   run_scores, reported>>

\* NoRuns = int(input(...)); pool = Pool(processes=NoRuns), which raises
\* ValueError below 1; pool.map_async(run, rList) queues one task per run
MainPool ==
    /\ main_pc = "runs"
    /\ NoRuns' \in (-1)..MaxRuns
    /\ IF NoRuns' < 1
       THEN main_pc' = "raised" /\ UNCHANGED worker
       ELSE /\ main_pc' = "get"
            /\ worker' = [r \in rList(NoRuns') |->
                            [pc |-> "queued", env |-> FALSE, agent |-> FALSE]]
    /\ UNCHANGED <<agentVars, runVars, task_in, reward_in, TASK, REWARD,
                   run_scores, reported>>

\* a statement of run(r) raises: the worker hands the exception to the parent
WorkerRaise(r) ==
    /\ worker[r].pc \in {"queued", "env", "agent"}
    /\ worker' = [worker EXCEPT ![r].pc = "raised"]
    /\ UNCHANGED <<agentVars, runVars, main_pc, task_in, reward_in, NoRuns,
                   TASK, REWARD, run_scores, reported>>

\* env = gym.make(...)
WorkerEnv(r) ==
    /\ worker[r].pc = "queued"
    /\ worker' = [worker EXCEPT ![r].pc = "env", ![r].env = TRUE]
    /\ UNCHANGED <<agentVars, runVars, main_pc, task_in, reward_in, NoRuns,
                   TASK, REWARD, run_scores, reported>>

\* agent = Agent(...)
WorkerAgent(r) ==
    /\ worker[r].pc = "env"
    /\ worker' = [worker EXCEPT ![r].pc = "agent", ![r].agent = TRUE]
    /\ UNCHANGED <<agentVars, runVars, main_pc, task_in, reward_in, NoRuns,
                   TASK, REWARD, run_scores, reported>>

\* the episodes, the saves and return score_history
WorkerReturn(r) ==
    /\ worker[r].pc = "agent"
    /\ worker' = [worker EXCEPT ![r].pc = "returned"]
    /\ UNCHANGED <<agentVars, runVars, main_pc, task_in, reward_in, NoRuns,
                   TASK, REWARD, run_scores, reported>>

Finished(r) == worker[r].pc \in {"returned", "raised"}

\* run_scores = pool.map_async(run, rList).get(): ready once every task is
\* done, and then raises the first exception a task raised
MainGet ==
    /\ main_pc = "get"
    /\ \A r \in DOMAIN worker : Finished(r)
    /\ IF \E r \in DOMAIN worker : worker[r].pc = "raised"
       THEN main_pc' = "raised" /\ UNCHANGED run_scores
       ELSE main_pc' = "close" /\ run_scores' = DOMAIN worker
    /\ UNCHANGED <<agentVars, runVars, task_in, reward_in, NoRuns, TASK,
                   REWARD, worker, reported>>

\* pool.close(); print(f"Time taken to run: ...")
MainReport ==
    /\ main_pc = "close"
    /\ reported' = TRUE
    /\ main_pc' = "done"
    /\ UNCHANGED <<agentVars, runVars, task_in, reward_in, NoRuns, TASK,
                   REWARD, worker, run_scores>>

\* ---------------------------------------------------------- specifications
\* an Agent whose methods are called in any order
Init ==
    /\ InitAgent(1..MaxMem, 1..MaxBatch, TauSet, PVals)
    /\ run_pc = "api"
    /\ InitRunLocals({Unbound})
    /\ InitMain("none")

Learn == LearnReturn \/ LearnBegin \/ CriticStep \/ ActorStep \/ SoftUpdate

Next == Remember \/ Learn \/ Update

Spec == Init /\ [][Next]_vars

\* run(): Agent(tau=0.001, batch_size=64, ...) with the default max_size,
\* which the steps of a run never fill
InitRun ==
    /\ InitAgent({MaxEpisodes * MaxSteps}, 1..(MaxBatch + 1),
                 {t \in TauSet : Fractional(t)}, {0})
    /\ run_pc = "for"
    /\ InitRunLocals(ObsSet)
    /\ InitMain("none")

NextRun ==
    RunReset \/ RunStep \/ Learn \/ RunAfterLearn \/ RunEndEpisode \/ RunSave

SpecRun == InitRun /\ [][NextRun]_vars

\* DDPG_main()
InitMainSpec ==
    /\ InitAgent({1}, {1}, {0}, {0})
    /\ run_pc = "none"
    /\ InitRunLocals({Unbound})
    /\ InitMain("task")

NextMain ==
    \/ MainTask \/ MainReward \/ MainPool \/ MainGet \/ MainReport
    \/ \E r \in DOMAIN worker :
          WorkerEnv(r) \/ WorkerAgent(r) \/ WorkerReturn(r) \/ WorkerRaise(r)

SpecMain == InitMainSpec /\ [][NextMain]_vars

\* ------------------------------------------------------------- properties
\* the calls (counted from 0) that wrote slot k, and the last of them
Writers(k) == {j \in 0..(Len(history) - 1) : j % mem_size = k}
LastWriter(k) == CHOOSE j \in Writers(k) : \A j2 \in Writers(k) : j2 <= j
Stored(j) == history[j + 1]

\* slot k holds transition t, its flag being 0 for a terminal transition
Holds(k, t) ==
    /\ state_memory[k] = t.state
    /\ new_state_memory[k] = t.state_
    /\ action_memory[k] = t.action
    /\ reward_memory[k] = t.reward
    /\ terminal_memory[k] = (~t.done)

Empty(k) ==
    /\ state_memory[k] = 0 /\ new_state_memory[k] = 0 /\ action_memory[k] = 0
    /\ reward_memory[k] = 0 /\ terminal_memory[k] = FALSE

\* C1: after k stores mem_cntr is k, call j wrote slot j mod N_max, min(k,
\* N_max) slots are occupied, and the buffer holds exactly the last
\* min(k, N_max) transitions stored: each is overwritten by the N_max-th
\* store after it and by no earlier one.
C1_CircularStore ==
    /\ mem_cntr = Len(history)
    /\ Cardinality({k \in Slots : Writers(k) # {}}) = Min(mem_cntr, mem_size)
    /\ \A k \in Slots :
          IF Writers(k) = {} THEN Empty(k) ELSE Holds(k, Stored(LastWriter(k)))
    /\ \A j \in 0..(Len(history) - 1) :
          /\ j >= Len(history) - mem_size => Holds(j % mem_size, Stored(j))
          /\ j < Len(history) - mem_size => LastWriter(j % mem_size) >= j + mem_size

C1_Witness ==
    /\ last.op = "remember"
    /\ mem_size >= 2
    /\ mem_cntr > mem_size
    /\ Stored(0) # Stored(mem_size)
    /\ Holds(0, Stored(mem_size))

\* C2: the draw of sample_buffer lies in [0, min(mem_cntr, mem_size)), so in
\* slots that were written, the five arrays are the five memories at that
\* draw, and learn never samples an empty buffer.
C2_SampleInRange ==
    /\ last.op # "learn_raised"
    /\ pc = "critic" =>
          /\ mem_cntr >= 1
          /\ DOMAIN batch = 1..batch_size
          /\ \A j \in 1..batch_size :
                /\ 0 <= batch[j] /\ batch[j] < mem_cntr /\ batch[j] < mem_size
                /\ Writers(batch[j]) # {}
                /\ smp.states[j] = state_memory[batch[j]]
                /\ smp.actions[j] = action_memory[batch[j]]
                /\ smp.rewards[j] = reward_memory[batch[j]]
                /\ smp.states_[j] = new_state_memory[batch[j]]
                /\ smp.terminal[j] = terminal_memory[batch[j]]

C2_Witness ==
    /\ pc = "critic"
    /\ batch_size = 2
    /\ mem_cntr = 2 /\ mem_size = 2
    /\ batch[1] # batch[2]

\* C3: a transition stored with done = true has flag 0 and TD target equal
\* to its reward; one stored with done = false has flag 1 and target
\* reward + gamma * Q_target (targets and rewards counted in 1/GammaDen).
C3_TerminalFlag ==
    /\ \A k \in Slots : Writers(k) # {} =>
          IntOfBool(terminal_memory[k]) =
             (IF Stored(LastWriter(k)).done THEN 0 ELSE 1)
    /\ pc = "critic" =>
          \A j \in DOMAIN batch :
             LET t == Stored(LastWriter(batch[j])) IN
             target[j] = IF t.done
                         THEN GammaDen * t.reward
                         ELSE GammaDen * t.reward + GammaNum * critic_value_[j]

C3_Witness ==
    /\ pc = "critic"
    /\ \E j \in DOMAIN batch : Stored(LastWriter(batch[j])).done
                               /\ target[j] = GammaDen * smp.rewards[j]
    /\ \E j \in DOMAIN batch : ~Stored(LastWriter(batch[j])).done
                               /\ target[j] # GammaDen * smp.rewards[j]

\* C4: learn() called with mem_cntr < batch_size returns at once: networks,
\* targets, recorded losses and the buffer are unchanged and no update is
\* begun.
LearnCalled == pc = "idle" /\ last'.op \in {"learn_return", "td_target",
                                            "learn_raised"}
C4_LearnNoop ==
    [][(LearnCalled /\ mem_cntr < batch_size) =>
          /\ UNCHANGED <<netVars, lossVars, bufferVars, history, blends>>
          /\ pc' = "idle"
          /\ last'.op = "learn_return"]_vars

C4_Witness ==
    /\ last.op = "learn_return"
    /\ mem_cntr >= 1
    /\ mem_cntr < batch_size

\* C5: update_network_parameters(tau) sets each target parameter to
\* tau * source + (1 - tau) * target by name, for both pairs, and leaves the
\* sources alone: tau = 1 copies, tau = 0 changes nothing, 0 < tau < 1 moves
\* the fraction tau of the way; after construction the targets equal their
\* sources.
Blended(t, source, old, new) ==
    /\ DOMAIN new = DOMAIN source
    /\ \A name \in DOMAIN source :
          /\ TauDen * new[name] = t * source[name] + (TauDen - t) * old[name]
          /\ TauDen * (new[name] - old[name]) = t * (source[name] - old[name])
          /\ t = TauDen => new[name] = source[name]
          /\ t = 0 => new[name] = old[name]

C5_SoftUpdate ==
    /\ [](last.op = "init" =>
             target_actor = actor /\ target_critic = critic)
    /\ [][blends' # blends =>
             /\ last'.op \in {"update", "soft_update"}
             /\ Blended(last'.tau, critic, target_critic, target_critic')
             /\ Blended(last'.tau, actor, target_actor, target_actor')
             /\ UNCHANGED <<actor, critic>>]_vars

C5_Witness ==
    /\ last.op = "update"
    /\ Fractional(last.tau)
    /\ \E name \in CriticNames :
          target_critic[name] # critic[name] /\ target_critic[name] % Unit # 0
    /\ \E name \in ActorNames :
          target_actor[name] # actor[name] /\ target_actor[name] % Unit # 0

\* C10: a learn() past the guard runs the Critic step, the Actor step and
\* the soft update in that order; the Critic step writes Critic parameters
\* only, the Actor step Actor parameters only, and the targets change in
\* update_network_parameters alone.
C10_StepFrames ==
    [][/\ critic' # critic =>
             pc = "critic" /\ last'.op = "critic_step"
       /\ actor' # actor =>
             pc = "actor" /\ last'.op = "actor_step"
       /\ (target_actor' # target_actor \/ target_critic' # target_critic) =>
             last'.op \in {"update", "soft_update"}
       /\ last'.op = "td_target" => pc = "idle" /\ pc' = "critic"
       /\ pc = "critic" => pc' = "actor" /\ last'.op = "critic_step"
       /\ pc = "actor" => pc' = "update" /\ last'.op = "actor_step"
       /\ pc = "update" => pc' = "idle" /\ last'.op = "soft_update"]_vars

C10_Witness ==
    /\ last.op = "soft_update"
    /\ actor # target_actor
    /\ critic # target_critic
    /\ actor_loss.kind = "float" /\ critic_loss.kind = "float"

\* C6: a task index outside 0..4, a reward-mode index outside 0..1 or a run
\* count <= 0 makes DDPG_main stop before a run is started or an
\* Environment or Agent constructed.
ConfigError ==
    \/ task_in \notin 0..4
    \/ reward_in \notin 0..1
    \/ main_pc \notin {"task", "reward", "runs"} /\ NoRuns <= 0

C6_RejectedAtEntry ==
    ConfigError => main_pc = "raised" /\ DOMAIN worker = {}

\* C7: when a run raises, every other run still completes, its scores are
\* collected by the parent and the parent reports the elapsed time.
C7_OtherRunsReported ==
    (main_pc \in {"raised", "done"} /\ DOMAIN worker # {}) =>
        /\ \A r \in DOMAIN worker : Finished(r)
        /\ \A r \in DOMAIN worker :
              worker[r].pc = "returned" => r \in run_scores /\ reported

\* C8: within an episode the state stored at step t+1 is the next state
\* stored at step t.
C8_ObservationChain ==
    \A j \in 1..(Len(history) - 1) :
        ~history[j].done => history[j + 1].state = history[j].state_

\* C9: the first entry of the run's loss sequences is recorded before any
\* learn() update has completed, later entries are losses of completed
\* updates, and the saved sequences hold such losses only.
OnlyLosses(seq) == \A k \in DOMAIN seq : seq[k].kind = "float"

C9_LossSequences ==
    /\ (run_pc # "done" /\ Len(run_actor_loss) >= 1) =>
          /\ run_actor_loss[1] = EmptyList
          /\ run_critic_loss[1] = EmptyList
          /\ OnlyLosses(Tail(run_actor_loss))
          /\ OnlyLosses(Tail(run_critic_loss))
    /\ saved.written =>
          OnlyLosses(saved.actor_loss) /\ OnlyLosses(saved.critic_loss)

====
